---------------------------- MODULE Spec2Model ----------------------------
(***************************************************************************)
(* Model of the git smart-HTTP reference-advertisement rewriter of         *)
(* cmd/gvisor-website/main.go: the pkt-line codec (emitPkt / readPkt),     *)
(* the reference parser (readRef) and the handler infoRefs.                *)
(*                                                                         *)
(* Byte strings are TLA+ strings; TLC evaluates Len, \o and SubSeq on      *)
(* them.  The byte 0x00 has no escape in TLA+, so NUL stands for it.       *)
(***************************************************************************)
EXTENDS Integers, Sequences, FiniteSets, TLC

(***************************************************************************)
(* Bounds of the explored input space.                                     *)
(***************************************************************************)
MaxRefs == 3
MaxBlanks == 2
MaxPkts == 2
MaxPayloadLen == 2
MaxLineLen == 7

(***************************************************************************)
(* Program constants.                                                      *)
(***************************************************************************)
serviceLine == "# service=git-upload-pack"
target == "refs/heads/go"
StatusOK == 200
StatusForbidden == 403
StatusInternalServerError == 500
HexWidth == 4
NUL == "\t"
NL == "\n"

(***************************************************************************)
(* Bytes and strings.                                                      *)
(***************************************************************************)
\* The bytes used by the model, in increasing byte value (NUL first).
ByteOrder == "\t\n #+-/0123456789:=ABCDEFGHIJKLMNOPQRSTUVWXYZ[]_abcdefghijklmnopqrstuvwxyz"

At(s, i) == SubSeq(s, i, i)

Ord(c) == CHOOSE i \in 1..Len(ByteOrder) : At(ByteOrder, i) = c

\* Go's string comparison a < b: bytewise lexicographic.
StrLess(a, b) ==
    \E k \in 0..Len(a) :
        /\ k <= Len(b)
        /\ SubSeq(a, 1, k) = SubSeq(b, 1, k)
        /\ \/ k = Len(a) /\ k < Len(b)
           \/ k < Len(a) /\ k < Len(b) /\ Ord(At(a, k + 1)) < Ord(At(b, k + 1))

HasPrefix(s, p) == Len(s) >= Len(p) /\ SubSeq(s, 1, Len(p)) = p

TrimSuffix(s, suf) ==
    IF Len(s) >= Len(suf) /\ SubSeq(s, Len(s) - Len(suf) + 1, Len(s)) = suf
    THEN SubSeq(s, 1, Len(s) - Len(suf))
    ELSE s

\* strings.Split(s, sep) for a one-byte separator: always at least one part.
\* (t is the string s, computed once.)
RECURSIVE Split(_, _)
Split(s, sep) ==
    LET Cut[t \in {s}] ==
            IF \A i \in 1..Len(t) : At(t, i) # sep
            THEN <<t>>
            ELSE LET i == CHOOSE j \in 1..Len(t) :
                             /\ At(t, j) = sep
                             /\ \A k \in 1..(j - 1) : At(t, k) # sep
                 IN  <<SubSeq(t, 1, i - 1)>>
                         \o Split(SubSeq(t, i + 1, Len(t)), sep)
    IN  Cut[s]

RECURSIVE Join(_, _)
Join(parts, sep) ==
    IF Len(parts) = 0 THEN ""
    ELSE IF Len(parts) = 1 THEN parts[1]
    ELSE parts[1] \o sep \o Join(Tail(parts), sep)

\* (q is the slice sorted and y the string x, each computed once.)
RECURSIVE Insert(_, _)
Insert(sorted, x) ==
    LET Put[q \in {sorted}, y \in {x}] ==
            IF Len(q) = 0 THEN <<y>>
            ELSE IF StrLess(y, q[1]) THEN <<y>> \o q
            ELSE <<q[1]>> \o Insert(Tail(q), y)
    IN  Put[sorted, x]

\* sort.Strings left out: the slice stays as it is.
SortStringsSkipped(xs) == xs

\* sort.Strings: the increasing rearrangement of the slice.
RECURSIVE SortStrings(_)
SortStrings(xs) ==
    IF Len(xs) = 0 THEN <<>>
    ELSE Insert(SortStrings(Tail(xs)), xs[1])

(***************************************************************************)
(* fmt "%04x" and strconv.ParseInt(s, 16, 32).                             *)
(***************************************************************************)
HexDigits == "0123456789abcdef"
HexUpper == "0123456789ABCDEF"

RECURSIVE ToHex(_)
ToHex(n) ==
    IF n < 16 THEN At(HexDigits, n + 1)
    ELSE ToHex(n \div 16) \o At(HexDigits, (n % 16) + 1)

\* "%04x": at least HexWidth digits, zero padded; wider values are not cut.
Fmt04x(n) ==
    LET h == ToHex(n)
    IN  IF Len(h) >= HexWidth THEN h
        ELSE SubSeq("0000", 1, HexWidth - Len(h)) \o h

IsHex(c) == \E i \in 1..16 : At(HexDigits, i) = c \/ At(HexUpper, i) = c

HexVal(c) == (CHOOSE i \in 1..16 : At(HexDigits, i) = c \/ At(HexUpper, i) = c) - 1

RECURSIVE HexNum(_)
HexNum(s) ==
    IF Len(s) = 0 THEN 0
    ELSE 16 * HexNum(SubSeq(s, 1, Len(s) - 1)) + HexVal(At(s, Len(s)))

\* ParseInt accepts one leading sign; the digits after it must be hex and
\* there must be at least one.  Four digits never leave the 32-bit range.
ParseInt(s) ==
    LET neg == Len(s) > 0 /\ At(s, 1) = "-"
        signed == Len(s) > 0 /\ (At(s, 1) = "+" \/ At(s, 1) = "-")
        digits == IF signed THEN SubSeq(s, 2, Len(s)) ELSE s
    IN  IF Len(digits) = 0 \/ \E i \in 1..Len(digits) : ~IsHex(At(digits, i))
        THEN [err |-> TRUE, size |-> 0]
        ELSE [err |-> FALSE,
              size |-> IF neg THEN 0 - HexNum(digits) ELSE HexNum(digits)]

(***************************************************************************)
(* The pkt-line codec.                                                     *)
(***************************************************************************)
\* emitPkt: the bytes written to the response for payload m.
emitPkt(m) ==
    IF Len(m) = 0
    THEN Fmt04x(0)
    ELSE Fmt04x(4 + Len(m) + 1) \o m \o NL

\* readPkt with line 318 left out: a flush record is returned but the
\* cursor stays on it.
readPktNoAdvance(d) ==
    IF Len(d) < 4
    THEN [m |-> "", ok |-> FALSE, data |-> d, fault |-> FALSE]
    ELSE LET p == ParseInt(SubSeq(d, 1, 4))
         IN  IF p.err
             THEN [m |-> "", ok |-> FALSE, data |-> d, fault |-> FALSE]
             ELSE IF p.size = 0
             THEN [m |-> "", ok |-> TRUE, data |-> d, fault |-> FALSE]
             ELSE IF Len(d) >= p.size
             THEN IF p.size < 4
                  THEN [m |-> "", ok |-> FALSE, data |-> d, fault |-> TRUE]
                  ELSE [m |-> TrimSuffix(SubSeq(d, 5, p.size), NL),
                        ok |-> TRUE,
                        data |-> SubSeq(d, p.size + 1, Len(d)),
                        fault |-> FALSE]
             ELSE [m |-> "", ok |-> FALSE, data |-> d, fault |-> FALSE]

\* readPkt on the buffer d: the payload, ok, the buffer left, and whether
\* the slice expression data[4:size] faulted (size below 4).
readPkt(d) ==
    IF Len(d) < 4
    THEN [m |-> "", ok |-> FALSE, data |-> d, fault |-> FALSE]
    ELSE LET p == ParseInt(SubSeq(d, 1, 4))
         IN  IF p.err
             THEN [m |-> "", ok |-> FALSE, data |-> d, fault |-> FALSE]
             ELSE IF p.size = 0
             THEN [m |-> "", ok |-> TRUE, data |-> SubSeq(d, 5, Len(d)),
                   fault |-> FALSE]
             ELSE IF Len(d) >= p.size
             THEN IF p.size < 4
                  THEN [m |-> "", ok |-> FALSE, data |-> d, fault |-> TRUE]
                  ELSE [m |-> TrimSuffix(SubSeq(d, 5, p.size), NL),
                        ok |-> TRUE,
                        data |-> SubSeq(d, p.size + 1, Len(d)),
                        fault |-> FALSE]
             ELSE [m |-> "", ok |-> FALSE, data |-> d, fault |-> FALSE]


\* readRef without the test of line 361: text after a second NUL is dropped.
readRefLoose(d) ==
    LET p == readPkt(d)
        bad == [hash |-> "", ref |-> "", options |-> <<>>, ok |-> FALSE,
                data |-> p.data, fault |-> FALSE,
                diag |-> "invalid reference: " \o p.m]
    IN  IF p.fault
        THEN [hash |-> "", ref |-> "", options |-> <<>>, ok |-> FALSE,
              data |-> d, fault |-> TRUE, diag |-> ""]
        ELSE IF p.m = "" /\ p.ok
        THEN [hash |-> "", ref |-> "", options |-> <<>>, ok |-> TRUE,
              data |-> p.data, fault |-> FALSE, diag |-> ""]
        ELSE IF ~p.ok \/ p.m = ""
        THEN bad
        ELSE LET parts == Split(p.m, NUL)
                 opts == IF Len(parts) >= 2 THEN Split(parts[2], " ")
                         ELSE <<>>
                 hr == Split(parts[1], " ")
             IN  IF Len(hr) # 2
                 THEN bad
                 ELSE [hash |-> hr[1], ref |-> hr[2], options |-> opts,
                       ok |-> TRUE, data |-> p.data, fault |-> FALSE,
                       diag |-> ""]

\* readRef on the buffer d.  A blank or flush packet yields empty fields
\* with ok; diag is the text written after WriteHeader(500) when not ok.
\* (p is the result of the one readPkt call of line 347.)
readRef(d) ==
    LET Line[p \in { readPkt(d) }] ==
          LET bad == [hash |-> "", ref |-> "", options |-> <<>>,
                      ok |-> FALSE, data |-> p.data, fault |-> FALSE,
                      diag |-> "invalid reference: " \o p.m]
          IN  IF p.fault
              THEN [hash |-> "", ref |-> "", options |-> <<>>, ok |-> FALSE,
                    data |-> d, fault |-> TRUE, diag |-> ""]
              ELSE IF p.m = "" /\ p.ok
              THEN [hash |-> "", ref |-> "", options |-> <<>>, ok |-> TRUE,
                    data |-> p.data, fault |-> FALSE, diag |-> ""]
              ELSE IF ~p.ok \/ p.m = ""
              THEN bad
              ELSE LET parts == Split(p.m, NUL)
                   IN  IF Len(parts) > 2
                       THEN bad
                       ELSE LET opts == IF Len(parts) = 2
                                        THEN Split(parts[2], " ")
                                        ELSE <<>>
                                hr == Split(parts[1], " ")
                            IN  IF Len(hr) # 2
                                THEN bad
                                ELSE [hash |-> hr[1], ref |-> hr[2],
                                      options |-> opts, ok |-> TRUE,
                                      data |-> p.data, fault |-> FALSE,
                                      diag |-> ""]
    IN  Line[readPkt(d)]

(***************************************************************************)
(* The inbound request: r.URL.Query(), a map from names to value lists.    *)
(***************************************************************************)
NoQuery == [k \in {} |-> <<>>]

Queries ==
    { NoQuery,
      [k \in {"service"} |-> <<"git-upload-pack">>],
      [k \in {"service"} |-> <<"git-receive-pack">>],
      [k \in {"service"} |-> <<"git-upload-pack", "git-upload-pack">>],
      [k \in {"service"} |-> <<>>],
      [k \in {"extra"} |-> <<"1">>],
      [k \in {"service", "extra"} |->
          IF k = "service" THEN <<"git-upload-pack">> ELSE <<"1">>] }

\* Line 263 without the test on the number of parameters.
ValidQueryAnyCount(q) ==
    ~ ( \/ "service" \notin DOMAIN q
        \/ Len(q["service"]) # 1
        \/ q["service"][1] # "git-upload-pack" )

\* The condition of line 263 under which the request is served.
ValidQuery(q) ==
    ~ ( \/ "service" \notin DOMAIN q
        \/ Cardinality(DOMAIN q) > 1
        \/ Len(q["service"]) # 1
        \/ q["service"][1] # "git-upload-pack" )

RECURSIVE SetToSortedSeq(_)
SetToSortedSeq(S) ==
    IF S = {} THEN <<>>
    ELSE LET x == CHOOSE y \in S : TRUE
         IN  Insert(SetToSortedSeq(S \ {x}), x)

\* fmt "%v" of url.Values: map[k1:[v v] k2:[v]], keys in increasing order.
FmtValues(q) ==
    LET keys == SetToSortedSeq(DOMAIN q)
        entry(k) == k \o ":[" \o Join(q[k], " ") \o "]"
    IN  "map[" \o Join([i \in 1..Len(keys) |-> entry(keys[i])], " ") \o "]"

(***************************************************************************)
(* The upstream: what client.Get(upstreamInfoRefs) can return.             *)
(***************************************************************************)
\* A pkt-line as the upstream git server writes it.
UpstreamPkt(m) == Fmt04x(Len(m) + 5) \o m \o NL

Flush == "0000"

RECURSIVE Repeat(_, _)
Repeat(s, n) == IF n = 0 THEN "" ELSE s \o Repeat(s, n - 1)

RECURSIVE Cat(_)
Cat(ss) == IF Len(ss) = 0 THEN "" ELSE ss[1] \o Cat(Tail(ss))

RefLine(e) == e[1] \o " " \o e[2]

\* References of the upstream repository, as <<hash, name>>.
RefPool ==
    { <<"aaa", "refs/heads/main">>, <<"bbb", "refs/heads/dev">>,
      <<"ccc", "refs/heads/go">>, <<"ddd", "refs/heads/abc">> }

FirstPool ==
    { <<"aaa", "HEAD">>, <<"ccc", "HEAD">>, <<"eee", "refs/heads/base">> }

\* The capability trailer of the first reference: none, or NUL and a list.
TrailerPool == { "", NUL \o "symref=HEAD:refs/heads/main capA capB" }

DistinctSeqs(S, n) ==
    UNION { { q \in [1..k -> S] : \A i, j \in 1..k : i # j => q[i] # q[j] }
            : k \in 0..n }

\* The wire form of an advertisement: header, blanks, first, rest, flush.
Serialize(blanks, f, trailer, rest) ==
    UpstreamPkt(serviceLine) \o Repeat(Flush, blanks)
        \o UpstreamPkt(RefLine(f) \o trailer)
        \o Cat([i \in 1..Len(rest) |-> UpstreamPkt(RefLine(rest[i]))])
        \o Flush

WellFormed ==
    { [status |-> StatusOK, wf |-> TRUE, blanks |-> b, first |-> f,
       trailer |-> t, rest |-> r, body |-> Serialize(b, f, t, r)]
      : b \in 0..MaxBlanks, f \in FirstPool, t \in TrailerPool,
        r \in DistinctSeqs(RefPool, MaxRefs) }

\* Advertisements whose first reference is the target itself.
TargetFirst ==
    { [status |-> StatusOK, wf |-> TRUE, blanks |-> 1,
       first |-> <<"ccc", "refs/heads/go">>, trailer |-> "", rest |-> r,
       body |-> Serialize(1, <<"ccc", "refs/heads/go">>, "", r)]
      : r \in { <<>>, << <<"aaa", "refs/heads/main">> >>,
                << <<"aaa", "refs/heads/main">>,
                   <<"bbb", "refs/heads/dev">> >> } }

\* Capability trailers with symref= at several places, as a prefix, inside
\* a capability, alone, and already naming the target.
CapabilityTrailers ==
    { NUL \o "capA symref=HEAD:refs/heads/main xsymref=1 symref=",
      NUL \o "symref=refs/heads/go capA",
      NUL \o "symref=HEAD:refs/heads/main symref=HEAD:refs/heads/dev",
      NUL \o "capA" }

CapabilityLists ==
    { [status |-> StatusOK, wf |-> TRUE, blanks |-> 1,
       first |-> <<"aaa", "HEAD">>, trailer |-> t,
       rest |-> << <<"ccc", "refs/heads/go">> >>,
       body |-> Serialize(1, <<"aaa", "HEAD">>, t,
                          << <<"ccc", "refs/heads/go">> >>)]
      : t \in CapabilityTrailers }

\* Advertisements as a rewrite leaves them: one blank, the symref capability
\* naming the target; also with a first reference that is not HEAD.
Promoted ==
    { [status |-> StatusOK, wf |-> TRUE, blanks |-> 1, first |-> f,
       trailer |-> NUL \o "symref=refs/heads/go capA capB", rest |-> r,
       body |-> Serialize(1, f, NUL \o "symref=refs/heads/go capA capB", r)]
      : f \in { <<"ccc", "HEAD">>, <<"eee", "refs/heads/base">> },
        r \in DistinctSeqs(RefPool, MaxRefs) }

Raw(st, bytes) ==
    [status |-> st, wf |-> FALSE, blanks |-> 0, first |-> <<"", "">>,
     trailer |-> "", rest |-> <<>>, body |-> bytes]

HeadRef == UpstreamPkt("aaa HEAD" \o NUL \o "capA")
MainRef == UpstreamPkt("aaa refs/heads/main")
GoRef == UpstreamPkt("ccc refs/heads/go")

\* Records an upstream should not send.
BadItems ==
    { "0001", "0003", "-001", "zzzz", "00ffaaa", "0004", "0005\n",
      UpstreamPkt("aaa HEAD" \o NUL \o "x" \o NUL \o "y"),
      UpstreamPkt("aaa"), UpstreamPkt("aaa b c"),
      UpstreamPkt(" refs/heads/x"), UpstreamPkt("aaa ") }

Malformed ==
    { Raw(StatusOK, b) : b \in
        { "", "00", UpstreamPkt(serviceLine),
          UpstreamPkt(serviceLine) \o Flush \o Flush,
          "0003" \o UpstreamPkt(serviceLine) \o Flush \o HeadRef \o GoRef
              \o Flush,
          "-001" \o UpstreamPkt(serviceLine) \o Flush \o HeadRef \o GoRef
              \o Flush,
          UpstreamPkt("# service=git-receive-pack") \o Flush \o HeadRef
              \o GoRef \o Flush,
          HeadRef \o GoRef \o Flush,
          UpstreamPkt(serviceLine) \o Flush \o HeadRef \o GoRef,
          UpstreamPkt(serviceLine) \o Flush \o HeadRef \o GoRef
              \o UpstreamPkt("ddd refs/heads/go") \o Flush } }
    \cup
    { Raw(StatusOK, UpstreamPkt(serviceLine) \o Flush \o pre \o bad \o GoRef
                   \o Flush)
      : pre \in { "", HeadRef, HeadRef \o MainRef }, bad \in BadItems }

Refused ==
    { Raw(st, b) : st \in { 204, 404, 503 },
                   b \in { "", "Not Found",
                           Serialize(1, <<"aaa", "HEAD">>, "",
                                     << <<"ccc", "refs/heads/go">> >>) } }

UpstreamResponses ==
    WellFormed \cup TargetFirst \cup CapabilityLists \cup Promoted
        \cup Malformed \cup Refused

NoResponse == Raw(0, "")

\* Errors of the transport: client.Get and ioutil.ReadAll.
TransportErrors == { "dial tcp: i/o timeout", "unexpected EOF" }

(***************************************************************************)
(* Go maps and the steps of the rewrite.                                   *)
(***************************************************************************)
EmptyMap == [k \in {} |-> ""]

\* m[k] of a Go map: the zero value "" for a missing key.
MapGet(m, k) == IF k \in DOMAIN m THEN m[k] ELSE ""

MapSet(m, k, v) == [x \in DOMAIN m \cup {k} |-> IF x = k THEN v ELSE m[x]]

MapDelete(m, k) == [x \in DOMAIN m \ {k} |-> m[x]]

\* Lines 389-395 leaving the loop after the first option.
RewriteOptionsFirstOnly(opts) ==
    [i \in 1..Len(opts) |->
        IF i = 1 /\ HasPrefix(opts[i], "symref=") THEN "symref=" \o target
        ELSE opts[i]]

\* Line 393 writing the form symref=HEAD:<target>.
RewriteOptionsHeadPrefix(opts) ==
    [i \in 1..Len(opts) |->
        IF HasPrefix(opts[i], "symref=") THEN "symref=HEAD:" \o target
        ELSE opts[i]]

\* Lines 389-395: every option with the prefix symref= is replaced.
RewriteOptions(opts) ==
    [i \in 1..Len(opts) |->
        IF HasPrefix(opts[i], "symref=") THEN "symref=" \o target
        ELSE opts[i]]

\* Lines 419-431 with line 423 left out: HEAD keeps the upstream's hash.
RewriteRefsKeepHash(f, h, m, o) ==
    IF f = "HEAD"
    THEN [first |-> f, headHash |-> h, others |-> m, order |-> o]
    ELSE LET m1 == MapSet(m, target, MapGet(m, target))
         IN  [first |-> target, headHash |-> MapGet(m, target),
              others |-> MapDelete(m1, target),
              order |-> SortStrings(Append(o, target))]

\* Lines 419-431 sorting the order in the HEAD case as well.
RewriteRefsSortAlways(f, h, m, o) ==
    IF f = "HEAD"
    THEN [first |-> f, headHash |-> MapGet(m, target), others |-> m,
          order |-> SortStrings(o)]
    ELSE LET m1 == MapSet(m, target, MapGet(m, target))
         IN  [first |-> target, headHash |-> MapGet(m, target),
              others |-> MapDelete(m1, target),
              order |-> SortStrings(Append(o, target))]

\* Lines 419-431, statement by statement; f, h, m, o are first, headHash,
\* others and order on entry (target is in m).
RewriteRefs(f, h, m, o) ==
    IF f = "HEAD"
    THEN [first |-> f, headHash |-> MapGet(m, target), others |-> m,
          order |-> o]
    ELSE LET h1 == MapGet(m, target)
             f1 == target
             m1 == MapSet(m, f1, h1)
             o1 == Append(o, f1)
             o2 == SortStrings(o1)
             m2 == MapDelete(m1, target)
         IN  [first |-> f1, headHash |-> h1, others |-> m2, order |-> o2]

\* Line 413 left out: the target is taken to be there.
TargetPresentUnchecked(m) == TRUE

\* Line 413 with the test inverted.
TargetPresentInverted(m) == target \notin DOMAIN m

\* Line 413: the target is among the references read.
TargetPresent(m) == target \in DOMAIN m

\* Line 438 with a space where the NUL belongs.
FirstLineSpace(h, f, opts) == h \o " " \o f \o " " \o Join(opts, " ")

\* The payload of the first entry, line 438.
FirstLine(h, f, opts) == h \o " " \o f \o NUL \o Join(opts, " ")

(***************************************************************************)
(* State.                                                                  *)
(***************************************************************************)
VARIABLES
    pc,            \* position of the handler
    query,         \* r.URL.Query() of the inbound request
    resp,          \* the upstream response, once fetched
    err,           \* the error of client.Get or ioutil.ReadAll, "" for nil
    upstreamCalls, \* number of client.Get calls made
    data,          \* the decode cursor: the part of the body not yet read
    status,        \* status code sent to the client, 0 while none is sent
    headers,       \* response headers set by the handler
    body,          \* bytes written to the client
    pkts,          \* payloads passed to emitPkt so far
    headHash, first, options, others, order,
    idx,           \* position of the emit loop in order
    cpc, cin, cwritten, cdata, cout,  \* the codec exercised on its own
    ppc,           \* position of gitUploadPack
    orig,          \* the request r handed to gitUploadPack
    req,           \* the outbound request handed to the Director
    cur,           \* the infoRefs execution the handler variables belong to
    parked         \* the handler variables of the suspended executions

hvars == <<pc, query, resp, err, upstreamCalls, data, status, headers, body,
           pkts, headHash, first, options, others, order, idx>>
cvars == <<cpc, cin, cwritten, cdata, cout>>
pvars == <<ppc, orig, req>>
qvars == <<cur, parked>>
vars == <<hvars, cvars, pvars, qvars>>

locals == <<headHash, first, options, others, order, idx>>

HandlerInit ==
    /\ pc = "start"
    /\ query \in Queries
    /\ resp = NoResponse
    /\ err = ""
    /\ upstreamCalls = 0
    /\ data = ""
    /\ status = 0
    /\ headers = {}
    /\ body = ""
    /\ pkts = <<>>
    /\ headHash = ""
    /\ first = ""
    /\ options = <<>>
    /\ others = EmptyMap
    /\ order = <<>>
    /\ idx = 1

CodecIdle ==
    /\ cpc = "idle"
    /\ cin = <<>>
    /\ cwritten = <<>>
    /\ cdata = ""
    /\ cout = <<>>

\* No request is being forwarded.
NoRequest == [scheme |-> "", host |-> "", path |-> "", rawQuery |-> "",
              header |-> EmptyMap, body |-> ""]

ProxyIdle ==
    /\ ppc = "idle"
    /\ orig = NoRequest
    /\ req = NoRequest

\* One execution of infoRefs, none suspended.
Single ==
    /\ cur = 1
    /\ parked = <<>>

Init == HandlerInit /\ CodecIdle /\ ProxyIdle /\ Single

(***************************************************************************)
(* infoRefs, step by step.                                                 *)
(***************************************************************************)
\* The error is written but the return is missing: the handler goes on.
FailNoReturn(code, text) ==
    /\ status' = code
    /\ body' = body \o text
    /\ pc' = "emit_service"

\* WriteHeader(code) followed by one write of text, then return.
Fail(code, text) ==
    /\ status' = code
    /\ body' = body \o text
    /\ pc' = "done"

\* A write through emitPkt; the first write sends status 200.
Emit(m) ==
    /\ status' = IF status = 0 THEN StatusOK ELSE status
    /\ body' = body \o emitPkt(m)
    /\ pkts' = Append(pkts, m)

\* Lines 261-267.
CheckQuery ==
    /\ pc = "start"
    /\ IF ValidQuery(query)
       THEN /\ pc' = "connect"
            /\ UNCHANGED <<status, body>>
       ELSE Fail(StatusForbidden, "invalid query: " \o FmtValues(query))
    /\ UNCHANGED <<query, resp, err, upstreamCalls, data, headers,
                   pkts, locals,
                   cvars, pvars, qvars>>

\* Lines 269-277.
ConnectTo(responses) ==
    /\ pc = "connect"
    /\ upstreamCalls' = upstreamCalls + 1
    /\ \/ /\ \E r \in responses : resp' = r
          /\ pc' = "readall"
          /\ UNCHANGED <<err, status, body>>
       \/ /\ \E e \in TransportErrors :
                /\ err' = e
                /\ Fail(StatusInternalServerError, "upstream get error: " \o e)
          /\ UNCHANGED resp
    /\ UNCHANGED <<query, data, headers, pkts, locals, cvars, pvars, qvars>>

Connect == ConnectTo(UpstreamResponses)

\* Line 288 passing through client and server errors only.
PassThroughErrorsOnly(st) == st >= 400

\* Line 288: the upstream status that is passed through.
PassThrough(st) == st # StatusOK

\* Lines 279-292.
ReadAll ==
    /\ pc = "readall"
    /\ \/ /\ \E e \in TransportErrors :
                /\ err' = e
                /\ Fail(StatusInternalServerError, "upstream read error: " \o e)
          /\ UNCHANGED data
       \/ /\ data' = resp.body
          /\ err' = ""
          /\ IF PassThrough(resp.status)
             THEN /\ status' = resp.status
                  /\ body' = body \o resp.body
                  /\ pc' = "done"
             ELSE /\ pc' = "header"
                  /\ UNCHANGED <<status, body>>
    /\ UNCHANGED <<query, resp, upstreamCalls, headers, pkts, locals,
                   cvars, pvars, qvars>>

\* Lines 337-343.
CheckHeader ==
    /\ pc = "header"
    /\ \E p \in { readPkt(data) } :
           IF p.fault
           THEN /\ pc' = "panic"
                /\ UNCHANGED <<data, status, body>>
           ELSE /\ data' = p.data
                /\ IF ~p.ok \/ p.m # serviceLine
                   THEN Fail(StatusInternalServerError,
                             "invalid upstream header: " \o p.m)
                   ELSE /\ pc' = "first"
                        /\ UNCHANGED <<status, body>>
    /\ UNCHANGED <<query, resp, err, upstreamCalls, headers, pkts,
                   locals, cvars, pvars, qvars>>

\* Line 382 testing the hash where the name belongs.
SkipBlankByHash(r) == r.hash = "" /\ r.ok

\* Line 382: the loop reads again while first == "" && ok.
SkipBlank(r) == r.ref = "" /\ r.ok

\* Lines 378-387: one readRef of the loop that skips empty blocks.
ReadFirst ==
    /\ pc = "first"
    /\ \E r \in { readRef(data) } :
           IF r.fault
           THEN /\ pc' = "panic"
                /\ UNCHANGED <<data, status, body, headHash, first, options>>
           ELSE /\ data' = r.data
                /\ headHash' = r.hash
                /\ first' = r.ref
                /\ options' = r.options
                /\ IF ~r.ok
                   THEN Fail(StatusInternalServerError, r.diag)
                   ELSE /\ pc' = IF SkipBlank(r) THEN "first" ELSE "options"
                        /\ UNCHANGED <<status, body>>
    /\ UNCHANGED <<query, resp, err, upstreamCalls, headers, pkts,
                   others, order,
                   idx, cvars, pvars, qvars>>

\* Lines 389-399.
DoRewriteOptions ==
    /\ pc = "options"
    /\ options' = RewriteOptions(options)
    /\ others' = EmptyMap
    /\ order' = <<>>
    /\ pc' = "others"
    /\ UNCHANGED <<query, resp, err, upstreamCalls, data, status,
                   headers, body,
                   pkts, headHash, first, idx, cvars, pvars, qvars>>

\* Lines 400-410: one iteration of the loop over the other references.
ReadOther ==
    /\ pc = "others"
    /\ \E r \in { readRef(data) } :
           IF r.fault
           THEN /\ pc' = "panic"
                /\ UNCHANGED <<data, status, body, others, order>>
           ELSE /\ data' = r.data
                /\ IF ~r.ok
                   THEN /\ Fail(StatusInternalServerError, r.diag)
                        /\ UNCHANGED <<others, order>>
                   ELSE IF r.hash = ""
                   THEN /\ pc' = "target"
                        /\ UNCHANGED <<status, body, others, order>>
                   ELSE /\ others' = MapSet(others, r.ref, r.hash)
                        /\ order' = Append(order, r.ref)
                        /\ pc' = "others"
                        /\ UNCHANGED <<status, body>>
    /\ UNCHANGED <<query, resp, err, upstreamCalls, headers, pkts,
                   headHash, first,
                   options, idx, cvars, pvars, qvars>>

\* Lines 412-431.
CheckTarget ==
    /\ pc = "target"
    /\ IF ~TargetPresent(others)
       THEN /\ Fail(StatusInternalServerError,
                    "invalid target reference: " \o target)
            /\ UNCHANGED <<headHash, first, others, order>>
       ELSE LET w == RewriteRefs(first, headHash, others, order)
            IN  /\ headHash' = w.headHash
                /\ first' = w.first
                /\ others' = w.others
                /\ order' = w.order
                /\ pc' = "emit_service"
                /\ UNCHANGED <<status, body>>
    /\ UNCHANGED <<query, resp, err, upstreamCalls, data, headers,
                   pkts, options,
                   idx, cvars, pvars, qvars>>

\* Lines 433-436.
EmitService ==
    /\ pc = "emit_service"
    /\ headers' = { <<"Content-Type",
                      "application/x-git-upload-pack-advertisement">>,
                    <<"Cache-Control", "no-cache">> }
    /\ Emit(serviceLine)
    /\ pc' = "emit_blank"
    /\ UNCHANGED <<query, resp, err, upstreamCalls, data, locals,
                   cvars, pvars, qvars>>

\* Line 437.
EmitBlank ==
    /\ pc = "emit_blank"
    /\ Emit("")
    /\ pc' = "emit_first"
    /\ UNCHANGED <<query, resp, err, upstreamCalls, data, headers,
                   locals, cvars, pvars, qvars>>

\* Line 438.
EmitFirst ==
    /\ pc = "emit_first"
    /\ Emit(FirstLine(headHash, first, options))
    /\ idx' = 1
    /\ pc' = "emit_others"
    /\ UNCHANGED <<query, resp, err, upstreamCalls, data, headers,
                   headHash, first,
                   options, others, order, cvars, pvars, qvars>>

\* Lines 439-446: one iteration; a name missing from others panics.
EmitOther ==
    /\ pc = "emit_others"
    /\ idx <= Len(order)
    /\ IF order[idx] \in DOMAIN others
       THEN /\ Emit(others[order[idx]] \o " " \o order[idx])
            /\ idx' = idx + 1
            /\ pc' = "emit_others"
       ELSE /\ pc' = "panic"
            /\ UNCHANGED <<status, body, pkts, idx>>
    /\ UNCHANGED <<query, resp, err, upstreamCalls, data, headers,
                   headHash, first,
                   options, others, order, cvars, pvars, qvars>>

\* Line 447.
EmitTerminal ==
    /\ pc = "emit_others"
    /\ idx > Len(order)
    /\ Emit("")
    /\ pc' = "done"
    /\ UNCHANGED <<query, resp, err, upstreamCalls, data, headers,
                   locals, cvars, pvars, qvars>>

Next ==
    \/ CheckQuery
    \/ Connect
    \/ ReadAll
    \/ CheckHeader
    \/ ReadFirst
    \/ DoRewriteOptions
    \/ ReadOther
    \/ CheckTarget
    \/ EmitService
    \/ EmitBlank
    \/ EmitFirst
    \/ EmitOther
    \/ EmitTerminal

Spec == Init /\ [][Next]_vars

\* The upstream bodies on which the loops are followed to their end: every
\* malformed body, the refusals, and the advertisements of at most
\* MaxLiveRefs references after the first.
MaxLiveRefs == 1

LoopCases ==
    Malformed \cup Refused
        \cup { r \in WellFormed : Len(r.rest) <= MaxLiveRefs }

ConnectLoopCase == ConnectTo(LoopCases)

LiveNext ==
    \/ CheckQuery
    \/ ConnectLoopCase
    \/ ReadAll
    \/ CheckHeader
    \/ ReadFirst
    \/ DoRewriteOptions
    \/ ReadOther
    \/ CheckTarget
    \/ EmitService
    \/ EmitBlank
    \/ EmitFirst
    \/ EmitOther
    \/ EmitTerminal

\* The handler runs on its goroutine until it returns or panics: a step
\* that is possible is eventually taken.
SpecLive == Init /\ [][LiveNext]_vars /\ WF_vars(LiveNext)

(***************************************************************************)
(* The codec on its own: payloads are written with emitPkt, the bytes      *)
(* written become the buffer, and readPkt is called once per payload.      *)
(***************************************************************************)
\* The largest value four hex digits can hold.
MaxField == 16 ^ HexWidth - 1

RECURSIVE Fill(_, _)
Fill(c, n) ==
    IF n = 0 THEN ""
    ELSE LET half == Fill(c, n \div 2)
         IN  IF n % 2 = 1 THEN half \o half \o c ELSE half \o half

RECURSIVE Strings(_, _)
Strings(alphabet, n) ==
    IF n = 0 THEN { "" }
    ELSE LET shorter == Strings(alphabet, n - 1)
         IN  shorter \cup { t \o c : t \in shorter, c \in alphabet }

\* Short payloads over a byte and the newline, and the two payloads whose
\* records are the largest four digits hold and the first they do not.
CodecPayloads ==
    Strings({ "a", NL }, MaxPayloadLen)
        \cup { Fill("a", MaxField - 5), Fill("a", MaxField - 4) }

HandlerIdle ==
    /\ pc = "idle"
    /\ query = NoQuery
    /\ resp = NoResponse
    /\ err = ""
    /\ upstreamCalls = 0
    /\ data = ""
    /\ status = 0
    /\ headers = {}
    /\ body = ""
    /\ pkts = <<>>
    /\ headHash = ""
    /\ first = ""
    /\ options = <<>>
    /\ others = EmptyMap
    /\ order = <<>>
    /\ idx = 1

CodecInit ==
    /\ HandlerIdle
    /\ ProxyIdle
    /\ Single
    /\ cpc = "emit"
    /\ cin \in UNION { [1..n -> CodecPayloads] : n \in 1..MaxPkts }
    /\ cwritten = <<>>
    /\ cdata = ""
    /\ cout = <<>>

\* One emitPkt call, lines 295-305.
CodecEmit ==
    /\ cpc = "emit"
    /\ Len(cwritten) < Len(cin)
    /\ cwritten' = Append(cwritten, emitPkt(cin[Len(cwritten) + 1]))
    /\ UNCHANGED <<cpc, cin, cdata, cout, hvars, pvars, qvars>>

\* The bytes written are what the reader is given.
CodecLoad ==
    /\ cpc = "emit"
    /\ Len(cwritten) = Len(cin)
    /\ cdata' = Cat(cwritten)
    /\ cpc' = "read"
    /\ UNCHANGED <<cin, cwritten, cout, hvars, pvars, qvars>>

\* One readPkt call, lines 308-327.
CodecRead ==
    /\ cpc = "read"
    /\ LET p == readPkt(cdata)
       IN  IF p.fault
           THEN /\ cpc' = "panic"
                /\ UNCHANGED <<cdata, cout>>
           ELSE /\ cdata' = p.data
                /\ cout' = Append(cout, [m |-> p.m, ok |-> p.ok])
                /\ cpc' = IF ~p.ok THEN "failed"
                          ELSE IF Len(cout) + 1 = Len(cin) THEN "done"
                          ELSE "read"
    /\ UNCHANGED <<cin, cwritten, hvars, pvars, qvars>>

CodecNext == CodecEmit \/ CodecLoad \/ CodecRead

SpecCodec == CodecInit /\ [][CodecNext]_vars

(***************************************************************************)
(* readRef on its own: one reference line is put on the wire and readRef   *)
(* is called once, as at line 381.                                         *)
(***************************************************************************)
\* Reference lines over one letter, the space and the NUL.
RefPayloads == Strings({ "a", " ", NUL }, MaxLineLen) \ { "" }

RefInit ==
    /\ ProxyIdle
    /\ Single
    /\ pc = "ref"
    /\ query = NoQuery
    /\ resp = NoResponse
    /\ err = ""
    /\ upstreamCalls = 0
    /\ \E p \in RefPayloads : cin = <<p>> /\ data = UpstreamPkt(p)
    /\ status = 0
    /\ headers = {}
    /\ body = ""
    /\ pkts = <<>>
    /\ headHash = ""
    /\ first = ""
    /\ options = <<>>
    /\ others = EmptyMap
    /\ order = <<>>
    /\ idx = 1
    /\ cpc = "idle"
    /\ cwritten = <<>>
    /\ cdata = ""
    /\ cout = <<>>

\* headHash, first, options, ok = readRef(), lines 346-376 and 381.
RefCall ==
    /\ pc = "ref"
    /\ \E r \in { readRef(data) } :
           IF r.fault
           THEN /\ pc' = "panic"
                /\ UNCHANGED <<data, status, body, headHash, first, options>>
           ELSE /\ data' = r.data
                /\ headHash' = r.hash
                /\ first' = r.ref
                /\ options' = r.options
                /\ IF ~r.ok
                   THEN Fail(StatusInternalServerError, r.diag)
                   ELSE /\ pc' = "ref_ok"
                        /\ UNCHANGED <<status, body>>
    /\ UNCHANGED <<query, resp, err, upstreamCalls, headers, pkts,
                   others, order,
                   idx, cvars, pvars, qvars>>

RefNext == RefCall

SpecRef == RefInit /\ [][RefNext]_vars

(***************************************************************************)
(* gitUploadPack: the request is handed to targetProxy, which gives its     *)
(* outbound copy to the Director before sending it.                        *)
(***************************************************************************)
\* url.Parse(upstreamGitUploadPack), lines 223 and 227-233.
targetURL ==
    [scheme |-> "https", host |-> "github.com",
     path |-> "/google/gvisor.git/git-upload-pack", rawQuery |-> ""]

\* Header maps of inbound requests: names to value lists.
InboundHeaders ==
    { h \in UNION { [names -> { <<"a">>, <<"gvisor.dev">>, <<"a", "b">> }]
                    : names \in SUBSET { "Host", "Git-Protocol" } } :
        "Host" \in DOMAIN h => h["Host"] = <<"gvisor.dev">> }

\* Requests the mux routes to gitUploadPack.
InboundRequests ==
    { [scheme |-> sc, host |-> ho, path |-> "/gvisor/git-upload-pack",
       rawQuery |-> q, header |-> h, body |-> b]
      : sc \in { "", "http" }, ho \in { "", "gvisor.dev" },
        q \in { "", "service=git-upload-pack" }, h \in InboundHeaders,
        b \in { "", "0032want ccc" \o NL \o "0000" } }

ProxyInit ==
    /\ HandlerIdle
    /\ CodecIdle
    /\ Single
    /\ ppc = "serve"
    /\ orig \in InboundRequests
    /\ req = NoRequest

\* Lines 245-248: ServeHTTP works on a copy of r.
Serve ==
    /\ ppc = "serve"
    /\ req' = orig
    /\ ppc' = "director"
    /\ UNCHANGED <<orig, hvars, cvars, qvars>>

\* The Director assigning the whole upstream URL: the query is lost.
DirectorWholeURL(q) ==
    [q EXCEPT !.scheme = targetURL.scheme,
              !.host = targetURL.host,
              !.path = targetURL.path,
              !.rawQuery = targetURL.rawQuery,
              !.header = MapSet(q.header, "Host", <<targetURL.host>>)]

\* Lines 237-242: the Director on the request q.
Director(q) ==
    [q EXCEPT !.scheme = targetURL.scheme,
              !.host = targetURL.host,
              !.path = targetURL.path,
              !.header = MapSet(q.header, "Host", <<targetURL.host>>)]

Direct ==
    /\ ppc = "director"
    /\ req' = Director(req)
    /\ ppc' = "sent"
    /\ UNCHANGED <<orig, hvars, cvars, qvars>>

ProxyNext == Serve \/ Direct

SpecProxy == ProxyInit /\ [][ProxyNext]_vars

(***************************************************************************)
(* Several executions of infoRefs, interleaved step by step.  Everything   *)
(* the handler holds is a local of its call (lines 250-448, client         *)
(* included), so each execution has its own copy: the handler variables    *)
(* are those of the execution cur, the others wait in parked.              *)
(***************************************************************************)
\* The number of concurrent requests.
NumRequests == 2

Executions == 1..NumRequests

\* The concurrent requests all ask for the service.
PairQueries == { [k \in {"service"} |-> <<"git-upload-pack">>] }

\* Upstream responses of the concurrent requests: an advertisement with
\* HEAD first, and one with another first reference and other hashes.
PairResponses ==
    { r \in CapabilityLists : r.trailer = NUL \o "capA" }
    \cup { r \in WellFormed :
             /\ r.blanks = 1 /\ r.trailer = ""
             /\ r.first = <<"eee", "refs/heads/base">>
             /\ r.rest = << <<"ccc", "refs/heads/go">> >> }

\* The locals of the running execution.
Locals ==
    [pc |-> pc, query |-> query, resp |-> resp, err |-> err,
     upstreamCalls |-> upstreamCalls, data |-> data, status |-> status,
     headers |-> headers, body |-> body, pkts |-> pkts,
     headHash |-> headHash, first |-> first, options |-> options,
     others |-> others, order |-> order, idx |-> idx]

\* An execution that has not started, for the request with query q.
Fresh(q) ==
    [pc |-> "start", query |-> q, resp |-> NoResponse, err |-> "",
     upstreamCalls |-> 0, data |-> "", status |-> 0, headers |-> {},
     body |-> "", pkts |-> <<>>, headHash |-> "", first |-> "",
     options |-> <<>>, others |-> EmptyMap, order |-> <<>>, idx |-> 1]

\* The slot of the running execution in parked.
Running == [pc |-> "running"]

PairInit ==
    /\ CodecIdle
    /\ ProxyIdle
    /\ cur = 1
    /\ HandlerInit
    /\ query \in PairQueries
    /\ parked \in { f \in [Executions -> { Running } \cup
                                { Fresh(q) : q \in PairQueries }] :
                       \A i \in Executions : f[i] = Running <=> i = 1 }

\* The decode cursor is one buffer for all executions: it is not switched.
ResumeSharedCursor(o) ==
    /\ pc' = o.pc
    /\ query' = o.query
    /\ resp' = o.resp
    /\ err' = o.err
    /\ upstreamCalls' = o.upstreamCalls
    /\ data' = data
    /\ status' = o.status
    /\ headers' = o.headers
    /\ body' = o.body
    /\ pkts' = o.pkts
    /\ headHash' = o.headHash
    /\ first' = o.first
    /\ options' = o.options
    /\ others' = o.others
    /\ order' = o.order
    /\ idx' = o.idx

\* The goroutine of an execution goes on with its own locals o.
Resume(o) ==
    /\ pc' = o.pc
    /\ query' = o.query
    /\ resp' = o.resp
    /\ err' = o.err
    /\ upstreamCalls' = o.upstreamCalls
    /\ data' = o.data
    /\ status' = o.status
    /\ headers' = o.headers
    /\ body' = o.body
    /\ pkts' = o.pkts
    /\ headHash' = o.headHash
    /\ first' = o.first
    /\ options' = o.options
    /\ others' = o.others
    /\ order' = o.order
    /\ idx' = o.idx

\* The scheduler runs another goroutine.
Switch ==
    \E j \in Executions \ { cur } :
        /\ parked' = [parked EXCEPT ![cur] = Locals, ![j] = Running]
        /\ cur' = j
        /\ Resume(parked[j])
        /\ UNCHANGED <<cvars, pvars>>

ConnectPair == ConnectTo(PairResponses)

PairNext ==
    \/ CheckQuery
    \/ ConnectPair
    \/ ReadAll
    \/ CheckHeader
    \/ ReadFirst
    \/ DoRewriteOptions
    \/ ReadOther
    \/ CheckTarget
    \/ EmitService
    \/ EmitBlank
    \/ EmitFirst
    \/ EmitOther
    \/ EmitTerminal
    \/ Switch

SpecPair == PairInit /\ [][PairNext]_vars

(***************************************************************************)
(* Vocabulary of the properties.                                           *)
(***************************************************************************)
Stopped == pc \in { "done", "panic" }

\* The handler returned after writing the whole advertisement.
AdvertisementComplete ==
    /\ pc = "done"
    /\ Len(pkts) >= 4
    /\ pkts[1] = serviceLine
    /\ pkts[Len(pkts)] = ""

\* The reference records written after the first entry, as <<hash, name>>.
EmittedRest ==
    LET tail == SubSeq(pkts, 4, Len(pkts))
        refs == SelectSeq(tail, LAMBDA m : m # "")
    IN  [i \in 1..Len(refs) |-> Split(refs[i], " ")]

\* The first entry written, as <<hash, name>>, once it is written.
EmittedFirst == Split(Split(pkts[3], NUL)[1], " ")

EmittedEntries ==
    IF Len(pkts) < 3 THEN <<>> ELSE <<EmittedFirst>> \o EmittedRest

Names(entries) == [i \in 1..Len(entries) |-> entries[i][2]]

Range(q) == { q[i] : i \in 1..Len(q) }

Count(q, e) == Cardinality({ i \in 1..Len(q) : q[i] = e })

SameBag(a, b) ==
    /\ Len(a) = Len(b)
    /\ \A e \in Range(a) \cup Range(b) : Count(a, e) = Count(b, e)

NonDecreasing(names) ==
    \A i, j \in 1..Len(names) : i < j => ~StrLess(names[j], names[i])

IsPrefixOf(a, b) == Len(a) <= Len(b) /\ SubSeq(b, 1, Len(a)) = a

\* The upstream sent a well-formed advertisement that lists the target.
UpstreamHasTarget == resp.wf /\ target \in Range(Names(resp.rest))

(***************************************************************************)
(* C1.  The advertisement is written atomically: whenever the handler has  *)
(* stopped, by return or by fault, it has written either no advertisement  *)
(* record at all or the complete advertisement.                            *)
(***************************************************************************)
C1_AtomicWrite == Stopped => (pkts = <<>> \/ AdvertisementComplete)

(***************************************************************************)
(* C2.  Conservation: for a well-formed upstream advertisement that lists  *)
(* the target, the <<hash, name>> pairs of the entries written (first and  *)
(* remaining) are, as a multiset, those of the upstream's entries.         *)
(***************************************************************************)
C2_Conservation ==
    (Stopped /\ err = "" /\ UpstreamHasTarget)
        => SameBag(EmittedEntries, <<resp.first>> \o resp.rest)

(***************************************************************************)
(* C3.  Ordering: when the upstream's first reference is not HEAD, the     *)
(* remaining entries written are in non-decreasing order by name; when it  *)
(* is HEAD, they are written in the upstream's order, all of them once the *)
(* handler has returned.                                                   *)
(***************************************************************************)
C3_Ordering ==
    resp.wf =>
        IF resp.first[2] # "HEAD"
        THEN NonDecreasing(Names(EmittedRest))
        ELSE /\ IsPrefixOf(Names(EmittedRest), Names(resp.rest))
             /\ AdvertisementComplete
                    => Names(EmittedRest) = Names(resp.rest)

\* Two entries written in sorted order that the upstream sent unsorted.
C3_Witness ==
    /\ resp.wf
    /\ resp.first[2] # "HEAD"
    /\ Len(EmittedRest) >= 2
    /\ ~NonDecreasing(Names(resp.rest))
    /\ ~IsPrefixOf(Names(EmittedRest), Names(resp.rest))

(***************************************************************************)
(* C4.  A request whose query is not exactly service=git-upload-pack is    *)
(* answered 403 and no upstream request is ever made for it.               *)
(***************************************************************************)
ExactlyService ==
    /\ DOMAIN query = { "service" }
    /\ query["service"] = <<"git-upload-pack">>

C4_Rejection ==
    ~ExactlyService =>
        /\ upstreamCalls = 0
        /\ pc \in { "start", "done" }
        /\ pc = "done" => (status = StatusForbidden /\ pkts = <<>>)

C4_Witness ==
    /\ DOMAIN query = { "service", "extra" }
    /\ query["service"] = <<"git-upload-pack">>
    /\ pc = "done"
    /\ status = StatusForbidden
    /\ body = "invalid query: map[extra:[1] service:[git-upload-pack]]"

(***************************************************************************)
(* C5.  Missing target: a well-formed upstream advertisement whose         *)
(* remaining entries do not include the target is answered 500 and no      *)
(* advertisement record is written.                                        *)
(***************************************************************************)
C5_MissingTarget ==
    (resp.wf /\ target \notin Range(Names(resp.rest)))
        => /\ pkts = <<>>
           /\ pc # "panic"
           /\ pc = "done" => status = StatusInternalServerError
           /\ (pc = "done" /\ err = "")
                  => body = "invalid target reference: refs/heads/go"

C5_Witness ==
    /\ resp.wf
    /\ Len(resp.rest) >= 2
    /\ target \notin Range(Names(resp.rest))
    /\ pc = "done"
    /\ err = ""
    /\ status = StatusInternalServerError

(***************************************************************************)
(* C6.  An upstream status other than 200 is passed through: the response  *)
(* has that status and exactly the upstream body, and nothing is decoded   *)
(* or rewritten.                                                           *)
(***************************************************************************)
C6_PassThrough ==
    (resp.status \notin { 0, 200 } /\ err = "" /\ pc # "readall")
        => /\ pc = "done"
           /\ status = resp.status
           /\ body = resp.body
           /\ data = resp.body
           /\ pkts = <<>>
           /\ headers = {}
           /\ order = <<>> /\ others = EmptyMap /\ first = ""

\* A refused response whose body is itself an advertisement.
C6_Witness ==
    /\ resp.status = 503
    /\ HasPrefix(resp.body, UpstreamPkt(serviceLine))
    /\ pc = "done"
    /\ err = ""
    /\ body = resp.body

(***************************************************************************)
(* C7.  The end-to-end example: upstream sends header, blank, "aaa HEAD"   *)
(* with capabilities symref=HEAD:refs/heads/main capA capB, then main,     *)
(* dev and go.  As claimed, the first entry written is "ccc HEAD" with     *)
(* symref=HEAD:refs/heads/go capA capB and the remaining entries are       *)
(* written sorted: dev, go, main.                                          *)
(***************************************************************************)
ExampleUpstream ==
    LET f == <<"aaa", "HEAD">>
        t == NUL \o "symref=HEAD:refs/heads/main capA capB"
        r == << <<"aaa", "refs/heads/main">>, <<"bbb", "refs/heads/dev">>,
                <<"ccc", "refs/heads/go">> >>
    IN  [status |-> StatusOK, wf |-> TRUE, blanks |-> 1, first |-> f,
         trailer |-> t, rest |-> r, body |-> Serialize(1, f, t, r)]

ExampleServed == resp = ExampleUpstream /\ pc = "done" /\ err = ""

C7_Example ==
    ExampleServed =>
        /\ pkts[3] = "ccc HEAD" \o NUL \o "symref=HEAD:refs/heads/go capA capB"
        /\ SubSeq(pkts, 4, Len(pkts)) =
               <<"bbb refs/heads/dev", "ccc refs/heads/go",
                 "aaa refs/heads/main", "">>

\* C7 as amended: the symref capability is written as symref=refs/heads/go
\* and the remaining entries keep the upstream's order main, dev, go.
C7_ExampleAmended ==
    /\ resp = ExampleUpstream => pc # "panic"
    /\ ExampleServed =>
        /\ status = StatusOK
        /\ pkts[3] = "ccc HEAD" \o NUL \o "symref=refs/heads/go capA capB"
        /\ SubSeq(pkts, 4, Len(pkts)) =
               <<"aaa refs/heads/main", "bbb refs/heads/dev",
                 "ccc refs/heads/go", "">>

C7_Witness == ExampleServed /\ AdvertisementComplete /\ Len(pkts) = 7

(***************************************************************************)
(* C8.  Codec round trip: payloads written with emitPkt and concatenated   *)
(* are read back by successive readPkt calls, each ok, as the same         *)
(* payloads in the same order, and the buffer is consumed entirely.        *)
(***************************************************************************)
C8_RoundTrip ==
    cpc \in { "done", "failed", "panic" } =>
        /\ cpc = "done"
        /\ cout = [i \in 1..Len(cin) |-> [m |-> cin[i], ok |-> TRUE]]
        /\ cdata = ""

(***************************************************************************)
(* C9.  For a non-empty payload emitPkt writes a length field of exactly   *)
(* four lowercase hex digits whose value is 4 + len(payload) + 1, which is *)
(* the number of bytes written: field, payload, one newline.  For the      *)
(* empty payload it writes exactly 0000.                                   *)
(***************************************************************************)
LowerHexField(f) ==
    /\ Len(f) = 4
    /\ \A j \in 1..4 : \E k \in 1..16 : At(HexDigits, k) = At(f, j)

C9_LengthField ==
    \A i \in 1..Len(cwritten) :
        LET m == cin[i]
            w == cwritten[i]
        IN  IF m = ""
            THEN w = "0000"
            ELSE /\ Len(w) = 4 + Len(m) + 1
                 /\ LowerHexField(SubSeq(w, 1, 4))
                 /\ HexNum(SubSeq(w, 1, 4)) = 4 + Len(m) + 1
                 /\ SubSeq(w, 5, Len(w)) = m \o NL

(***************************************************************************)
(* C10.  A successful response body is, in this order and with nothing     *)
(* else: the service header record, one empty record, the first entry      *)
(* record "<hash> <name>" NUL "<capabilities joined by spaces>", one        *)
(* "<hash> <name>" record per entry of the remaining set, and one final    *)
(* flush record.                                                           *)
(***************************************************************************)
Succeeded == pc = "done" /\ status = StatusOK

C10_BodyLayout ==
    Succeeded =>
        body = UpstreamPkt(serviceLine)
                 \o Flush
                 \o UpstreamPkt(headHash \o " " \o first \o NUL
                                  \o Join(options, " "))
                 \o Cat([i \in 1..Len(order) |->
                            UpstreamPkt(others[order[i]] \o " " \o order[i])])
                 \o Flush

C10_Witness ==
    /\ Succeeded
    /\ Len(order) >= 2
    /\ Len(options) >= 2
    /\ Len(pkts) = Len(order) + 4

(***************************************************************************)
(* C11.  When the upstream answers 200 and the first record is missing,    *)
(* undecodable or not exactly the service line, the handler answers 500    *)
(* and decodes no reference and rewrites nothing.                          *)
(***************************************************************************)
FirstRecord == readPkt(resp.body)

HeaderChecked ==
    /\ resp.status = StatusOK
    /\ err = ""
    /\ pc \notin { "start", "connect", "readall", "header" }

C11_HeaderRejected ==
    (HeaderChecked
        /\ (FirstRecord.fault \/ ~FirstRecord.ok \/ FirstRecord.m # serviceLine))
        => /\ pc = "done"
           /\ status = StatusInternalServerError
           /\ pkts = <<>>
           /\ first = "" /\ headHash = "" /\ options = <<>>
           /\ order = <<>> /\ others = EmptyMap

(***************************************************************************)
(* C12.  Errors are terminal and reported once: at most one upstream       *)
(* request is made; once a status is written no other is written; after    *)
(* 403 or 500 the handler has written only the diagnostic text, emits no   *)
(* record and takes no further step.                                       *)
(***************************************************************************)
Diagnostics ==
    { "invalid query: ", "upstream get error: ", "upstream read error: ",
      "invalid upstream header: ", "invalid reference: ",
      "invalid target reference: " }

ErrorReported == status \in { StatusForbidden, StatusInternalServerError }

TargetHash ==
    (CHOOSE e \in Range(resp.rest) : e[2] = target)[1]

C13_NonHeadCase ==
    (Stopped /\ err = "" /\ UpstreamHasTarget /\ resp.first[2] # "HEAD")
        => /\ AdvertisementComplete
           /\ EmittedFirst = <<TargetHash, target>>
           /\ target \notin Range(Names(EmittedRest))
           /\ resp.first \in Range(EmittedRest)
           /\ NonDecreasing(Names(EmittedRest))

(***************************************************************************)
(* C14.  readPkt never faults: on every buffer the handler gives it, also  *)
(* one whose length field is 0001..0003 or negative, it returns a result.  *)
(***************************************************************************)
C14_ReadPktTotal ==
    pc \in { "header", "first", "others" } => ~readPkt(data).fault

(***************************************************************************)
(* C15.  HEAD case: when the upstream's first reference is HEAD and the    *)
(* target is present, the first entry written is HEAD with the hash the    *)
(* upstream advertised for the target, and every remaining entry, the      *)
(* target included, is written with the upstream's name and hash.          *)
(***************************************************************************)
C15_HeadCase ==
    (Stopped /\ err = "" /\ UpstreamHasTarget /\ resp.first[2] = "HEAD")
        => /\ AdvertisementComplete
           /\ EmittedFirst = <<TargetHash, "HEAD">>
           /\ EmittedRest = resp.rest

C15_Witness ==
    /\ AdvertisementComplete
    /\ resp.wf
    /\ resp.first = <<"aaa", "HEAD">>
    /\ Len(resp.rest) = 3
    /\ resp.rest[2] = <<"ccc", "refs/heads/go">>
    /\ EmittedFirst = <<"ccc", "HEAD">>

(***************************************************************************)
(* C16.  The section of remaining entries ends only at a flush record:     *)
(* when the loop over the other references has stopped successfully, the   *)
(* last record it consumed is the wire value 0000.                         *)
(***************************************************************************)
C16_FlushTerminates ==
    pc = "target" =>
        LET used == Len(resp.body) - Len(data)
        IN  SubSeq(resp.body, used - 3, used) = Flush

(***************************************************************************)
(* C17.  In the first entry's capability list every capability beginning   *)
(* symref= is replaced by exactly symref=refs/heads/go and every other     *)
(* capability is written unchanged at the same position; the number of     *)
(* capabilities is unchanged.                                              *)
(***************************************************************************)
\* The capabilities the upstream sent with its first reference.
UpstreamCaps ==
    IF resp.trailer = "" THEN <<>>
    ELSE Split(SubSeq(resp.trailer, 2, Len(resp.trailer)), " ")

\* The capabilities written with the first entry.
EmittedCaps ==
    LET after == Split(pkts[3], NUL)[2]
    IN  IF after = "" THEN <<>> ELSE Split(after, " ")

C17_Capabilities ==
    (resp.wf /\ Len(pkts) >= 3) =>
        /\ Len(Split(pkts[3], NUL)) = 2
        /\ Len(EmittedCaps) = Len(UpstreamCaps)
        /\ \A i \in 1..Len(UpstreamCaps) :
              EmittedCaps[i] =
                  IF HasPrefix(UpstreamCaps[i], "symref=")
                  THEN "symref=refs/heads/go"
                  ELSE UpstreamCaps[i]

C17_Witness ==
    /\ resp.wf
    /\ Len(pkts) >= 3
    /\ UpstreamCaps = <<"capA", "symref=HEAD:refs/heads/main", "xsymref=1",
                        "symref=">>
    /\ EmittedCaps = <<"capA", "symref=refs/heads/go", "xsymref=1",
                       "symref=refs/heads/go">>

(***************************************************************************)
(* C18.  As claimed: an upstream 200 response whose first reference        *)
(* follows the service header directly, with no blank record between, is   *)
(* answered 500 and no advertisement is written.                           *)
(***************************************************************************)
NoBlank == resp.wf /\ resp.blanks = 0 /\ err = ""

AfterHeader == readPkt(resp.body).data

\* The bytes the handler has read since the service header.
Consumed == SubSeq(AfterHeader, 1, Len(AfterHeader) - Len(data))

RECURSIVE BlankOnly(_)
BlankOnly(s) ==
    \/ s = ""
    \/ HasPrefix(s, "0004") /\ BlankOnly(SubSeq(s, 5, Len(s)))
    \/ HasPrefix(s, "0005" \o NL) /\ BlankOnly(SubSeq(s, 6, Len(s)))

\* With a well-formed upstream the first reference is parsed as sent and
\* the remaining references are still unread, whatever was skipped.
IndependentOfSkipped ==
    (resp.wf /\ err = "" /\ pc = "options") =>
        /\ headHash = resp.first[1]
        /\ first = resp.first[2]
        /\ options = UpstreamCaps
        /\ data = Cat([i \in 1..Len(resp.rest) |->
                          UpstreamPkt(RefLine(resp.rest[i]))]) \o Flush
        /\ status = 0
        /\ pkts = <<>>

C19_SkipsBlankOnly ==
    /\ (pc = "first" /\ err = "") => BlankOnly(Consumed)
    /\ IndependentOfSkipped

\* A payload the skipping loop passes over: empty, or a reference line
\* whose name is empty.
EmptyName(p) ==
    \/ p = ""
    \/ /\ Len(Split(p, NUL)) <= 2
       /\ LET l == Split(Split(p, NUL)[1], " ")
          IN  Len(l) = 2 /\ l[2] = ""

RECURSIVE EmptyNameOnly(_)
EmptyNameOnly(s) ==
    \/ s = ""
    \/ LET r == readPkt(s)
       IN  /\ ~r.fault
           /\ r.ok
           /\ EmptyName(r.m)
           /\ EmptyNameOnly(r.data)

\* The bytes left once the leading records with an empty name are removed.
RECURSIVE SkipEmptyNames(_)
SkipEmptyNames(s) ==
    IF s = "" THEN s
    ELSE LET r == readPkt(s)
         IN  IF ~r.fault /\ r.ok /\ EmptyName(r.m)
             THEN SkipEmptyNames(r.data)
             ELSE s

\* C19 as amended: the records skipped are exactly the leading records
\* whose reference name is empty, which are the flush record 0000, the
\* records with an empty payload, and reference lines with an empty name;
\* the next record is parsed as the first reference, and what is parsed
\* does not depend on the number of records skipped.
C19_SkipsEmptyNames ==
    /\ (pc = "first" /\ err = "") => EmptyNameOnly(Consumed)
    /\ (pc = "options" /\ err = "") =>
          /\ first # ""
          /\ LET r == readRef(SkipEmptyNames(AfterHeader))
             IN  /\ ~r.fault /\ r.ok
                 /\ r.hash = headHash /\ r.ref = first
                 /\ r.options = options /\ r.data = data
    /\ IndependentOfSkipped

C19_Witness ==
    /\ pc = "options"
    /\ err = ""
    /\ Consumed = Flush \o "0004" \o GoRef
    /\ first = target
    /\ headHash = "ccc"

(***************************************************************************)
(* C20.  readRef rejects with 500 every non-empty record holding more than *)
(* one NUL and every record whose text before the first NUL does not       *)
(* consist of exactly two tokens separated by a single space; every other  *)
(* record is returned as (hash, name, capabilities), the capabilities      *)
(* being the space-split text after the NUL, or absent without a NUL.      *)
(***************************************************************************)
\* The number of occurrences of the character c in s.
CountChar(s, c) == Cardinality({ i \in 1..Len(s) : At(s, i) = c })

\* The position of the first c in s, or Len(s) + 1 when there is none.
FirstPos(s, c) ==
    IF CountChar(s, c) = 0 THEN Len(s) + 1
    ELSE CHOOSE i \in 1..Len(s) :
            At(s, i) = c /\ \A j \in 1..(i - 1) : At(s, j) # c

Before(s, c) == SubSeq(s, 1, FirstPos(s, c) - 1)

After(s, c) == SubSeq(s, FirstPos(s, c) + 1, Len(s))

C20_ReadRef ==
    pc # "ref" =>
        LET p == cin[1]
            nuls == CountChar(p, NUL)
            left == Before(p, NUL)
            right == After(p, NUL)
        IN  IF nuls > 1 \/ CountChar(left, " ") # 1
            THEN /\ pc = "done"
                 /\ status = StatusInternalServerError
                 /\ body = "invalid reference: " \o p
            ELSE /\ pc = "ref_ok"
                 /\ status = 0
                 /\ body = ""
                 /\ headHash = Before(left, " ")
                 /\ first = After(left, " ")
                 /\ data = ""
                 /\ IF nuls = 0
                    THEN options = <<>>
                    ELSE /\ Len(options) = CountChar(right, " ") + 1
                         /\ Join(options, " ") = right
                         /\ \A i \in 1..Len(options) :
                               CountChar(options[i], " ") = 0

C20_Witness ==
    /\ pc = "ref_ok"
    /\ CountChar(cin[1], NUL) = 1
    /\ headHash = "a"
    /\ first = "a"
    /\ options = <<"a", "a">>

(***************************************************************************)
(* C21.  readPkt returns not-ok exactly when fewer than 4 bytes remain,    *)
(* the first 4 bytes are not valid hexadecimal, or the decoded non-zero    *)
(* length exceeds the bytes remaining; a not-ok call leaves the cursor     *)
(* unchanged; an ok call advances it by 4 for a flush record and by the    *)
(* decoded length otherwise, stripping at most one trailing newline.       *)
(***************************************************************************)
\* Four hexadecimal digits, as the length field is defined.
HexField(s) == Len(s) = 4 /\ \A i \in 1..4 : IsHex(At(s, i))

\* What the claim says of one readPkt call on the buffer d.
ReadPktContract(d) ==
    LET r == readPkt(d)
        field == SubSeq(d, 1, 4)
        len == HexNum(field)
        short == Len(d) < 4
        notHex == ~short /\ ~HexField(field)
        truncated == ~short /\ ~notHex /\ len # 0 /\ len > Len(d)
    IN  /\ ~r.fault
        /\ r.ok <=> ~(short \/ notHex \/ truncated)
        /\ ~r.ok => (r.data = d /\ r.m = "")
        /\ (r.ok /\ len = 0) => (r.data = SubSeq(d, 5, Len(d)) /\ r.m = "")
        /\ (r.ok /\ len # 0) =>
              /\ r.data = SubSeq(d, len + 1, Len(d))
              /\ r.m \in { SubSeq(d, 5, len), SubSeq(d, 5, len - 1) }
              /\ (At(d, len) = NL) => r.m = SubSeq(d, 5, len - 1)

C21_ReadPktContract ==
    pc \in { "header", "first", "others" } => ReadPktContract(data)

(***************************************************************************)
(* C22.  As claimed: rewriting an advertisement whose first entry's symref *)
(* capability already equals the target produces an output whose           *)
(* first-entry symref equals the target and whose remaining entries are    *)
(* sorted by name.                                                         *)
(***************************************************************************)
\* The capabilities of s that begin with symref=.
Symrefs(s) == SelectSeq(s, LAMBDA c : HasPrefix(c, "symref="))

\* The upstream's first entry already carries the target as its symref,
\* and the target is advertised.
AlreadyPromoted ==
    /\ UpstreamHasTarget
    /\ err = ""
    /\ Symrefs(UpstreamCaps) = <<"symref=refs/heads/go">>

C22_Idempotence ==
    (Stopped /\ AlreadyPromoted) =>
        /\ AdvertisementComplete
        /\ Symrefs(EmittedCaps) = <<"symref=refs/heads/go">>
        /\ NonDecreasing(Names(EmittedRest))

\* C22 as amended: when the first entry is HEAD, the output's first-entry
\* symref equals the target and the remaining entries are the upstream's in
\* the upstream's order; when HEAD already carries the target's hash the
\* output is the upstream body, byte for byte.
C22_FixedPoint ==
    (Stopped /\ AlreadyPromoted /\ resp.first[2] = "HEAD") =>
        /\ AdvertisementComplete
        /\ status = StatusOK
        /\ Symrefs(EmittedCaps) = <<"symref=refs/heads/go">>
        /\ EmittedCaps = UpstreamCaps
        /\ EmittedRest = resp.rest
        /\ (resp.blanks = 1 /\ resp.first[1] = TargetHash) =>
              body = resp.body

C22_Witness ==
    /\ Stopped
    /\ AlreadyPromoted
    /\ resp.first = <<"ccc", "HEAD">>
    /\ Names(resp.rest) = <<"refs/heads/main", "refs/heads/go",
                            "refs/heads/abc">>
    /\ body = resp.body
    /\ ~NonDecreasing(Names(EmittedRest))

(***************************************************************************)
(* C23.  infoRefs terminates for every finite upstream body: each          *)
(* iteration of the blank-skipping loop and of the remaining-references    *)
(* loop consumes at least 4 bytes of the buffered body or ends the         *)
(* handler, so the handler always stops.                                   *)
(***************************************************************************)
\* One iteration of either loop: the cursor moves on by 4 bytes or more,
\* or the handler has ended.
LoopProgress ==
    pc \in { "first", "others" } =>
        \/ pc' \in { "done", "panic" }
        \/ Len(data') + 4 <= Len(data)

C23_Terminates ==
    /\ <>Stopped
    /\ [][LoopProgress]_vars

\* A body of the header followed only by flush records was read to its end
\* and refused.
C23_Witness ==
    /\ pc = "done"
    /\ resp.body = UpstreamPkt(serviceLine) \o Flush \o Flush
    /\ data = ""
    /\ status = StatusInternalServerError
    /\ body = "invalid reference: "

(***************************************************************************)
(* C25.  As claimed: the Director changes only the request URL's scheme,   *)
(* host and path, to those of the upstream git-upload-pack endpoint; every *)
(* request header, the query string and the body are left unchanged.       *)
(***************************************************************************)
\* The URL of the outbound request addresses the upstream endpoint.
Readdressed ==
    /\ req.scheme = "https"
    /\ req.host = "github.com"
    /\ req.path = "/google/gvisor.git/git-upload-pack"

C25_OnlyAddressing ==
    ppc = "sent" =>
        /\ Readdressed
        /\ req.header = orig.header
        /\ req.rawQuery = orig.rawQuery
        /\ req.body = orig.body

\* C25 as amended: besides the URL's scheme, host and path the Director
\* sets the request header Host to the upstream host; every other header,
\* the query string and the body are left unchanged.
C25_AddressingAndHost ==
    ppc = "sent" =>
        /\ Readdressed
        /\ DOMAIN req.header = DOMAIN orig.header \cup { "Host" }
        /\ req.header["Host"] = <<"github.com">>
        /\ \A k \in DOMAIN orig.header \ { "Host" } :
              req.header[k] = orig.header[k]
        /\ req.rawQuery = orig.rawQuery
        /\ req.body = orig.body

C25_Witness ==
    /\ ppc = "sent"
    /\ DOMAIN orig.header = { "Git-Protocol" }
    /\ orig.header["Git-Protocol"] = <<"a", "b">>
    /\ orig.rawQuery = "service=git-upload-pack"
    /\ orig.body # ""
    /\ req.header["Host"] = <<"github.com">>

(***************************************************************************)
(* C24.  Concurrent advertisement requests do not interfere: under any     *)
(* interleaving of infoRefs executions, each request's response (status    *)
(* and body) is exactly what that request produces when run alone on its   *)
(* own upstream response.                                                  *)
(***************************************************************************)
Answer(st, b, end) == [status |-> st, body |-> b, pc |-> end]

\* Lines 381-384 run to their end: the first readRef result not skipped.
RECURSIVE FirstRef(_)
FirstRef(d) ==
    LET r == readRef(d)
    IN  IF ~r.fault /\ r.ok /\ SkipBlank(r) THEN FirstRef(r.data) ELSE r

\* Lines 400-410 run to their end from the cursor d with others m, order o.
RECURSIVE OtherRefs(_, _, _)
OtherRefs(d, m, o) ==
    LET r == readRef(d)
    IN  IF r.fault
        THEN [end |-> "panic", diag |-> "", others |-> m, order |-> o]
        ELSE IF ~r.ok
        THEN [end |-> "error", diag |-> r.diag, others |-> m, order |-> o]
        ELSE IF r.hash = ""
        THEN [end |-> "terminal", diag |-> "", others |-> m, order |-> o]
        ELSE OtherRefs(r.data, MapSet(m, r.ref, r.hash), Append(o, r.ref))

\* Lines 439-446 run to their end: the bytes written, and whether the loop
\* panicked.
RECURSIVE EmittedOthers(_, _)
EmittedOthers(m, o) ==
    IF Len(o) = 0 THEN [text |-> "", panic |-> FALSE]
    ELSE IF o[1] \notin DOMAIN m THEN [text |-> "", panic |-> TRUE]
    ELSE LET t == EmittedOthers(m, Tail(o))
         IN  [text |-> emitPkt(m[o[1]] \o " " \o o[1]) \o t.text,
              panic |-> t.panic]

\* infoRefs run alone, from start to end, on the query q with the upstream
\* response u and the transport error e ("" for none).
Alone(q, u, e) ==
    IF ~ValidQuery(q)
    THEN Answer(StatusForbidden, "invalid query: " \o FmtValues(q), "done")
    ELSE IF u = NoResponse
    THEN Answer(StatusInternalServerError, "upstream get error: " \o e,
                "done")
    ELSE IF e # ""
    THEN Answer(StatusInternalServerError, "upstream read error: " \o e,
                "done")
    ELSE IF PassThrough(u.status)
    THEN Answer(u.status, u.body, "done")
    ELSE
    LET h == readPkt(u.body)
    IN  IF h.fault THEN Answer(0, "", "panic")
        ELSE IF ~h.ok \/ h.m # serviceLine
        THEN Answer(StatusInternalServerError,
                    "invalid upstream header: " \o h.m, "done")
        ELSE
        LET f == FirstRef(h.data)
        IN  IF f.fault THEN Answer(0, "", "panic")
            ELSE IF ~f.ok
            THEN Answer(StatusInternalServerError, f.diag, "done")
            ELSE
            LET rest == OtherRefs(f.data, EmptyMap, <<>>)
            IN  IF rest.end = "panic" THEN Answer(0, "", "panic")
                ELSE IF rest.end = "error"
                THEN Answer(StatusInternalServerError, rest.diag, "done")
                ELSE IF ~TargetPresent(rest.others)
                THEN Answer(StatusInternalServerError,
                            "invalid target reference: " \o target, "done")
                ELSE
                LET w == RewriteRefs(f.ref, f.hash, rest.others, rest.order)
                    t == EmittedOthers(w.others, w.order)
                    head == emitPkt(serviceLine) \o emitPkt("")
                              \o emitPkt(FirstLine(w.headHash, w.first,
                                             RewriteOptions(f.options)))
                IN  IF t.panic
                    THEN Answer(StatusOK, head \o t.text, "panic")
                    ELSE Answer(StatusOK, head \o t.text \o emitPkt(""),
                                "done")

\* The locals of execution i, running or suspended.
Execution(i) == IF i = cur THEN Locals ELSE parked[i]

C24_NoInterference ==
    \A i \in Executions :
        LET x == Execution(i)
        IN  x.pc \in { "done", "panic" } =>
                Answer(x.status, x.body, x.pc) = Alone(x.query, x.resp, x.err)

\* One execution has written its whole advertisement while another,
\* serving a different upstream response, is suspended in the middle of
\* decoding.
C24_Witness ==
    /\ AdvertisementComplete
    /\ resp.first = <<"aaa", "HEAD">>
    /\ \E j \in Executions \ { cur } :
          /\ parked[j].pc = "others"
          /\ parked[j].resp.first = <<"eee", "refs/heads/base">>
          /\ parked[j].order # <<>>
    /\ Answer(status, body, pc) = Alone(query, resp, err)

=============================================================================
